---- MODULE Spec2Model ----
(***************************************************************************)
(* Model of SDL/Practice-2/main.py: the "pinger" monitor.  It reads its    *)
(* configuration from the environment, installs SIGINT/SIGTERM handlers    *)
(* that set stop_requested, and then loops: check_version(), compute the   *)
(* remaining sleep, sleep in steps of 1 second re-testing stop_requested.  *)
(*                                                                         *)
(* Time is counted in ticks; TicksPerUnit ticks make one second, so that   *)
(* fractional durations (a check of 0.5 s) are representable.  Time passes *)
(* only in blocking calls: connect, execute and time.sleep.                *)
(* Strings whose content the code inspects (integers to parse, the         *)
(* VERSION() string) are sequences of one-character strings.               *)
(***************************************************************************)
EXTENDS Integers, Sequences, FiniteSets, TLC

\* ------------------------------------------------------------------ bounds
\* resolution of the clock: ticks per second
TicksPerUnit == 2
\* longest duration of one check_version() call, in ticks
MaxCheckTicks == 3
\* number of signals delivered in one run
MaxSignals == 2

\* ------------------------------------------------------- program constants
SIGINT == 2
SIGTERM == 15
ExitOk == 0
ExitFatal == 1
ExitNoCredentials == 2

\* ---------------------------------------------------------------- strings
Digits == {"0", "1", "2", "3", "4", "5", "6", "7", "8", "9"}

DigitVal(c) ==
    CASE c = "0" -> 0 [] c = "1" -> 1 [] c = "2" -> 2 [] c = "3" -> 3
      [] c = "4" -> 4 [] c = "5" -> 5 [] c = "6" -> 6 [] c = "7" -> 7
      [] c = "8" -> 8 [] c = "9" -> 9

RECURSIVE DigitsValue(_)
DigitsValue(s) ==
    IF s = <<>> THEN 0
    ELSE 10 * DigitsValue(SubSeq(s, 1, Len(s) - 1)) + DigitVal(s[Len(s)])

AllDigits(s) == s # <<>> /\ \A i \in 1..Len(s) : s[i] \in Digits

\* int(s): the value of a decimal literal with an optional sign; anything else
\* raises ValueError (ok = FALSE)
ParseInt(s) ==
    IF AllDigits(s) THEN [ok |-> TRUE, val |-> DigitsValue(s)]
    ELSE IF s # <<>> /\ s[1] = "-" /\ AllDigits(Tail(s))
         THEN [ok |-> TRUE, val |-> 0 - DigitsValue(Tail(s))]
         ELSE [ok |-> FALSE, val |-> 0]

\* str.startswith
StartsWith(s, p) == Len(s) >= Len(p) /\ SubSeq(s, 1, Len(p)) = p

\* the prefix check_version expects of VERSION()
ExpectedPrefix == <<"P", "o", "s", "t", "g", "r", "e", "S", "Q", "L">>

\* ------------------------------------------------------------ environment
\* os.getenv(name) of a variable that is not set
Unset == [set |-> FALSE, val |-> <<>>]
EnvStr(s) == [set |-> TRUE, val |-> s]

\* os.getenv(name, default)
Getenv(e, name, default) == IF e[name].set THEN e[name].val ELSE default

\* `not x` of a value read with os.getenv(name): None and "" are falsy
Falsy(v) == ~v.set \/ v.val = <<>>

DefaultPort == <<"5", "4", "3", "2">>
DefaultInterval == <<"3", "0", "0">>
DefaultTimeout == <<"1", "0">>

\* the environments the model starts from
CredValues == {Unset, EnvStr(<<>>), EnvStr(<<"u">>)}
PortValues == {Unset, EnvStr(<<"x">>)}
IntervalValues == {Unset, EnvStr(<<"1">>), EnvStr(<<"2">>), EnvStr(<<"x">>)}
TimeoutValues == {Unset, EnvStr(<<"7", "s">>)}
LogFileValues == {Unset, EnvStr(<<"f">>)}

AllEnvironments ==
    [DB_USER : CredValues, DB_PASS : CredValues, DB_PORT : PortValues,
     PING_INTERVAL_SECONDS : IntervalValues,
     CONNECT_TIMEOUT_SECONDS : TimeoutValues, LOG_FILE : LogFileValues]

\* The loop is explored with the intervals 1 and 2: the default interval of
\* 300 seconds is taken only in environments without DB_USER, whose runs end
\* at startup.
Environments ==
    {e \in AllEnvironments : e.PING_INTERVAL_SECONDS.set \/ Falsy(e.DB_USER)}

\* ------------------------------------------------------------- exceptions
None == "None"
\* exitCode of a process that has not exited
Running == 0 - 1
\* classes a step of the check can raise: psycopg2.OperationalError, another
\* psycopg2.DatabaseError, any other Exception
CheckErrors == {"OperationalError", "DatabaseError", "Exception"}
\* classes outside Exception
BaseOnly == {"KeyboardInterrupt"}

\* isinstance(e, cls) along OperationalError < DatabaseError < Exception
IsInstance(e, cls) ==
    CASE cls = "OperationalError" -> e = "OperationalError"
      [] cls = "DatabaseError" -> e \in {"OperationalError", "DatabaseError"}
      [] cls = "Exception" -> e \in CheckErrors
      [] cls = "KeyboardInterrupt" -> e = "KeyboardInterrupt"

\* ------------------------------------------------------------------ state
VARIABLES
    env,            \* the process environment
    pc,             \* position of the single thread of control
    cfg,            \* the module-level configuration values once parsed
    diag,           \* the credential diagnostic was printed on stderr
    mainExc,        \* exception that left main_loop (None if none)
    exitCode,       \* Running, else the process exit code
    stop_requested, \* the module-level stop flag
    nsig,           \* signals delivered so far
    log,            \* records passed to the logger since the iteration began
    sinceStart,     \* ticks since `start` was taken (-1 before the first)
    elapsed,        \* main_loop's local `elapsed`, in ticks (-1: not assigned
                    \* yet in this iteration; it is not read before line 129)
    to_sleep,       \* main_loop's local `to_sleep`, in ticks (0 until line 130)
    sleepLeft,      \* ticks left of the time.sleep call in progress
    slept,          \* sum of the arguments of the time.sleep calls made in
                    \* this iteration, in ticks
    sinceStop,      \* ticks since the flag was first set, when it was set in
                    \* the sleep phase (-1 otherwise)
    stopAt,         \* phase in which the flag was first set (None while unset)
    conn,           \* connect_with_timeout's local `conn`: None or "conn"
    openConns,      \* connections open on the server
    stmt,           \* statement_timeout of the session: None, "set", "discarded"
    queried,        \* SELECT VERSION() was executed in this check
    row,            \* fetchone(): [fetched, vals]; vals is <<>> (no row) or <<string>>
    closeErr,       \* conn.close() raised in this check
    exc,            \* exception raised in this check (None if none)
    failedAt        \* the call of the check that raised it (None if none)

vars ==
    <<env, pc, cfg, diag, mainExc, exitCode, stop_requested, nsig, log, sinceStart,
      elapsed, to_sleep, sleepLeft, slept, sinceStop, stopAt, conn,
      openConns, stmt, queried, row, closeErr, exc, failedAt>>

loopVars == <<sinceStart, elapsed, to_sleep, sleepLeft, slept>>
checkVars == <<conn, openConns, stmt, queried, row, closeErr, exc, failedAt>>
stopVars == <<stop_requested, nsig, sinceStop, stopAt>>
procVars == <<env, cfg, diag, mainExc, exitCode>>

NoRow == [fetched |-> FALSE, vals |-> <<>>]
NoConfig == [port |-> 0, interval |-> 0, timeout |-> 0, log_file |-> FALSE]

Init ==
    /\ env \in Environments
    /\ pc = "start"
    /\ cfg = NoConfig
    /\ diag = FALSE
    /\ mainExc = None
    /\ exitCode = Running
    /\ stop_requested = FALSE
    /\ nsig = 0
    /\ log = <<>>
    /\ sinceStart = -1
    /\ elapsed = -1
    /\ to_sleep = 0
    /\ sleepLeft = 0
    /\ slept = 0
    /\ sinceStop = -1
    /\ stopAt = None
    /\ conn = None
    /\ openConns = 0
    /\ stmt = None
    /\ queried = FALSE
    /\ row = NoRow
    /\ closeErr = FALSE
    /\ exc = None
    /\ failedAt = None

\* ---------------------------------------------------------------- logging
Rec(level, msg, arg) == [level |-> level, msg |-> msg, arg |-> arg]
Logged(level, msg, arg) == Append(log, Rec(level, msg, arg))

\* ------------------------------------------------------------------ sinks
\* the severities of the logging module, in increasing order
Levels == <<"DEBUG", "INFO", "WARNING", "ERROR", "CRITICAL">>
LevelNo(l) == CHOOSE i \in 1..Len(Levels) : Levels[i] = l

Handlers == {"stdout", "stderr", "file"}

\* line 26
LoggerLevel == "DEBUG"

\* mutant: the stderr handler is set to ERROR
HandlerLevel_StderrError(h) ==
    CASE h = "stdout" -> "INFO"
      [] h = "stderr" -> "ERROR"
      [] h = "file" -> "DEBUG"

\* lines 30, 36, 43: setLevel of each handler
HandlerLevel(h) ==
    CASE h = "stdout" -> "INFO"
      [] h = "stderr" -> "WARNING"
      [] h = "file" -> "DEBUG"

\* lines 32, 38 and 40-45: the handlers added to the logger under configuration c
HandlerAdded(h, c) == IF h = "file" THEN c.log_file ELSE TRUE

\* a record passes the logger's level, then the level of each added handler
Emits(h, c, r) ==
    /\ HandlerAdded(h, c)
    /\ LevelNo(r.level) >= LevelNo(LoggerLevel)
    /\ LevelNo(r.level) >= LevelNo(HandlerLevel(h))

\* lines 31, 37, 44: the text between the brackets of each format string;
\* only the file handler's format refers to the record (levelname)
FormatLabel(h, r) ==
    CASE h = "stdout" -> "INFO"
      [] h = "stderr" -> "ERROR"
      [] h = "file" -> r.level

\* the formatted line, without its timestamp
Format(h, r) == [label |-> FormatLabel(h, r), msg |-> r.msg, arg |-> r.arg]

\* the lines a handler writes for a sequence of records
RECURSIVE Sink(_, _, _)
Sink(h, c, recs) ==
    IF recs = <<>> THEN <<>>
    ELSE LET rest == Sink(h, c, Tail(recs)) IN
         IF Emits(h, c, Head(recs)) THEN <<Format(h, Head(recs))>> \o rest
         ELSE rest

\* ---------------------------------------------------------------- startup
\* lines 11-18: the integer options are parsed before the credentials are tested
ParsedPort(e) == ParseInt(Getenv(e, "DB_PORT", DefaultPort))
ParsedInterval(e) == ParseInt(Getenv(e, "PING_INTERVAL_SECONDS", DefaultInterval))
ParsedTimeout(e) == ParseInt(Getenv(e, "CONNECT_TIMEOUT_SECONDS", DefaultTimeout))

ConfigParses(e) == ParsedPort(e).ok /\ ParsedInterval(e).ok /\ ParsedTimeout(e).ok

\* mutant: only DB_USER is tested
CredentialsMissing_UserOnly(e) == Falsy(e.DB_USER)

\* line 20
CredentialsMissing(e) == Falsy(e.DB_USER) \/ Falsy(e.DB_PASS)

\* the exit code of module-level code, Running when it reaches main_loop:
\* an int() that raises ValueError ends the process with a traceback (code 1)
\* before line 20 is reached
StartupExit(e) ==
    IF ~ConfigParses(e) THEN ExitFatal
    ELSE IF CredentialsMissing(e) THEN ExitNoCredentials
    ELSE Running

\* lines 11-59: configuration, credential test, logger, signal handlers
Startup ==
    /\ pc = "start"
    /\ LET code == StartupExit(env) IN
        /\ exitCode' = code
        /\ diag' = (code = ExitNoCredentials)
        /\ pc' = IF code = Running THEN "main" ELSE "exit"
        /\ cfg' = IF code = Running
                  THEN [port |-> ParsedPort(env).val,
                        interval |-> ParsedInterval(env).val,
                        timeout |-> ParsedTimeout(env).val,
                        log_file |-> ~Falsy(env.LOG_FILE)]
                  ELSE cfg
    /\ UNCHANGED <<env, mainExc, log, loopVars, checkVars, stopVars>>

\* ------------------------------------------------------------ the signal
\* lines 52-55, installed for SIGINT and SIGTERM at lines 58-59
HandlersInstalled == pc \notin {"start", "exit"}

\* the part of the program a position belongs to
CheckPcs ==
    {"c_connect", "c_cursor1", "c_set", "c_commit", "c_rollback", "c_cursor2",
     "c_execute", "c_fetch", "c_log", "c_close", "c_except"}
SleepPcs == {"after_check", "sleep_test", "sleeping"}
Phase(p) ==
    IF p \in CheckPcs THEN "check"
    ELSE IF p \in SleepPcs THEN "sleep"
    ELSE IF p = "loop_top" THEN "top"
    ELSE "outside"

\* mutant: the handler toggles the flag
FlagAfterSignal_Toggle(stop) == ~stop

\* line 54: `stop_requested = True`
FlagAfterSignal(stop) == TRUE

\* mutant: the handler logs a warning
SignalRecord_Warning(signum) == Rec("WARNING", "signal", signum)

\* line 55
SignalRecord(signum) == Rec("INFO", "signal", signum)

Signal(signum) ==
    /\ HandlersInstalled
    /\ nsig < MaxSignals
    /\ stop_requested' = FlagAfterSignal(stop_requested)
    /\ log' = Append(log, SignalRecord(signum))
    /\ nsig' = nsig + 1
    /\ sinceStop' = IF ~stop_requested /\ Phase(pc) = "sleep" THEN 0
                     ELSE sinceStop
    /\ stopAt' = IF stop_requested THEN stopAt ELSE Phase(pc)
    /\ UNCHANGED <<pc, procVars, loopVars, checkVars>>

\* ------------------------------------------------------------------- time
\* calls in which time passes
BlockingCheckPcs == {"c_connect", "c_set", "c_execute"}

Tick ==
    /\ IF pc = "sleeping" THEN sleepLeft > 0
       ELSE pc \in BlockingCheckPcs /\ sinceStart < MaxCheckTicks
    /\ sinceStart' = sinceStart + 1
    /\ sleepLeft' = IF pc = "sleeping" THEN sleepLeft - 1 ELSE sleepLeft
    /\ sinceStop' = IF sinceStop >= 0 THEN sinceStop + 1 ELSE sinceStop
    /\ UNCHANGED <<pc, procVars, log, elapsed, to_sleep, slept, checkVars,
                   stop_requested, nsig, stopAt>>

\* -------------------------------------------------- connect_with_timeout
StepOutcomes == {"ok"} \cup CheckErrors

\* an exception leaves the body: the finally clause (line 81) runs next
Raise(e) ==
    /\ exc' = e
    /\ failedAt' = pc
    /\ pc' = "c_close"

\* the call returned
NoRaise == exc' = exc /\ failedAt' = failedAt

\* line 70: psycopg2.connect
Connect ==
    /\ pc = "c_connect"
    /\ \E r \in StepOutcomes :
        IF r = "ok"
        THEN /\ conn' = "conn"
             /\ openConns' = openConns + 1
             /\ pc' = "c_cursor1"
             /\ NoRaise
        ELSE /\ Raise(r)
             /\ UNCHANGED <<conn, openConns>>
    /\ UNCHANGED <<procVars, log, loopVars, stopVars, stmt, queried, row, closeErr>>

\* line 73: conn.cursor()
TimeoutCursor ==
    /\ pc = "c_cursor1"
    /\ \E r \in StepOutcomes :
        IF r = "ok" THEN pc' = "c_set" /\ NoRaise ELSE Raise(r)
    /\ UNCHANGED <<procVars, log, loopVars, stopVars, conn, openConns, stmt,
                   queried, row, closeErr>>

\* mutant: no handler around SET and commit
SetFailureSwallowed_Never(e) == FALSE

\* line 77: `except Exception` around SET and commit
SetFailureSwallowed(e) == IsInstance(e, "Exception")

\* where a failure of line 75 or 76 goes
AfterSetFailure(e) == IF SetFailureSwallowed(e) THEN "c_rollback" ELSE "c_close"

\* line 75: SET statement_timeout
SetTimeout ==
    /\ pc = "c_set"
    /\ \E r \in StepOutcomes :
        IF r = "ok"
        THEN pc' = "c_commit" /\ NoRaise
        ELSE /\ pc' = AfterSetFailure(r)
             /\ exc' = IF SetFailureSwallowed(r) THEN exc ELSE r
             /\ failedAt' = IF SetFailureSwallowed(r) THEN failedAt ELSE pc
    /\ UNCHANGED <<procVars, log, loopVars, stopVars, conn, openConns, stmt,
                   queried, row, closeErr>>

\* line 76: conn.commit()
Commit ==
    /\ pc = "c_commit"
    /\ \E r \in StepOutcomes :
        IF r = "ok"
        THEN pc' = "c_cursor2" /\ stmt' = "set" /\ NoRaise
        ELSE /\ pc' = AfterSetFailure(r)
             /\ exc' = IF SetFailureSwallowed(r) THEN exc ELSE r
             /\ failedAt' = IF SetFailureSwallowed(r) THEN failedAt ELSE pc
             /\ stmt' = stmt
    /\ UNCHANGED <<procVars, log, loopVars, stopVars, conn, openConns,
                   queried, row, closeErr>>

\* line 79: conn.rollback(); its own failure leaves the scope
Rollback ==
    /\ pc = "c_rollback"
    /\ \E r \in StepOutcomes :
        IF r = "ok"
        THEN pc' = "c_cursor2" /\ stmt' = "discarded" /\ NoRaise
        ELSE Raise(r) /\ stmt' = stmt
    /\ UNCHANGED <<procVars, log, loopVars, stopVars, conn, openConns,
                   queried, row, closeErr>>

\* mutant: the connection is closed on the success path only
CloseNeeded_OnSuccess(c, e) == c # None /\ e = None

\* line 82: `if conn:` in the finally clause
CloseNeeded(c, e) == c # None

\* mutant: no handler around conn.close()
CloseFailureSwallowed_Never(e) == FALSE

\* line 85: `except Exception: pass` around conn.close()
CloseFailureSwallowed(e) == IsInstance(e, "Exception")

\* lines 81-86: the connection is released; a failure of close() is swallowed
\* (one that is not would replace the exception of the body).
\* The handle is dropped with the generator's frame in either case, so the
\* connection does not outlive the scope.
Close ==
    /\ pc = "c_close"
    /\ IF CloseNeeded(conn, exc)
       THEN /\ openConns' = openConns - 1
            /\ \E r \in StepOutcomes :
                IF r = "ok" THEN closeErr' = FALSE /\ NoRaise
                ELSE IF CloseFailureSwallowed(r)
                     THEN closeErr' = TRUE /\ NoRaise
                     ELSE closeErr' = TRUE /\ exc' = r /\ failedAt' = pc
       ELSE UNCHANGED <<openConns, closeErr, exc, failedAt>>
    /\ pc' = "c_except"
    /\ UNCHANGED <<procVars, log, loopVars, stopVars, conn, stmt, queried,
                   row>>

\* ----------------------------------------------------------- check_version
\* VERSION() strings the server may answer with
PgVersion == ExpectedPrefix \o <<" ", "1", "5">>
VersionStrings == {PgVersion, <<"P", "o", "s", "t", "g", "r", "e">>, <<>>}
\* fetchone(): None or a row of one column
Rows == {<<>>} \cup {<<v>> : v \in VersionStrings}

\* line 95: conn.cursor()
QueryCursor ==
    /\ pc = "c_cursor2"
    /\ \E r \in StepOutcomes :
        IF r = "ok" THEN pc' = "c_execute" /\ NoRaise ELSE Raise(r)
    /\ UNCHANGED <<procVars, log, loopVars, stopVars, conn, openConns, stmt,
                   queried, row, closeErr>>

\* line 96: cur.execute("SELECT VERSION();")
Execute ==
    /\ pc = "c_execute"
    /\ queried' = TRUE
    /\ \E r \in StepOutcomes :
        IF r = "ok" THEN pc' = "c_fetch" /\ NoRaise ELSE Raise(r)
    /\ UNCHANGED <<procVars, log, loopVars, stopVars, conn, openConns, stmt,
                   row, closeErr>>

\* line 97: cur.fetchone()
Fetch ==
    /\ pc = "c_fetch"
    /\ \E r \in StepOutcomes :
        IF r = "ok"
        THEN /\ \E vals \in Rows : row' = [fetched |-> TRUE, vals |-> vals]
             /\ pc' = "c_log"
             /\ NoRaise
        ELSE Raise(r) /\ row' = row
    /\ UNCHANGED <<procVars, log, loopVars, stopVars, conn, openConns, stmt,
                   queried, closeErr>>

\* mutant: `if not row or not row[0]`
OutcomeRecord_EmptyString(vals) ==
    IF vals = <<>> \/ vals[1] = <<>> THEN Rec("WARNING", "empty", <<>>)
    ELSE IF StartsWith(vals[1], ExpectedPrefix)
         THEN Rec("INFO", "success", vals[1])
         ELSE Rec("INFO", "atypical", vals[1])

\* lines 98-107: the record logged for a fetched row
OutcomeRecord(vals) ==
    IF vals = <<>> THEN Rec("WARNING", "empty", <<>>)
    ELSE IF StartsWith(vals[1], ExpectedPrefix)
         THEN Rec("INFO", "success", vals[1])
         ELSE Rec("INFO", "atypical", vals[1])

LogOutcome ==
    /\ pc = "c_log"
    /\ log' = Append(log, OutcomeRecord(row.vals))
    /\ pc' = "c_close"
    /\ UNCHANGED <<procVars, loopVars, stopVars, checkVars>>

\* mutant: no generic `except Exception` clause in check_version
CheckVersionLabel_NoGeneric(e) ==
    IF IsInstance(e, "OperationalError") THEN "connfail"
    ELSE IF IsInstance(e, "DatabaseError") THEN "dberror"
    ELSE None

\* lines 108-116: the label of the handler that catches e, None if none does
CheckVersionLabel(e) ==
    IF IsInstance(e, "OperationalError") THEN "connfail"
    ELSE IF IsInstance(e, "DatabaseError") THEN "dberror"
    ELSE IF IsInstance(e, "Exception") THEN "unexpected"
    ELSE None

\* line 126: `except Exception` of main_loop
MainLoopCatches(e) == IsInstance(e, "Exception")

\* mutant: a failed check leaves main_loop
AfterCheckPc_Fatal(e) == IF e = None THEN "after_check" ELSE "main_except"

\* where main_loop goes once check_version has ended, normally or not
AfterCheckPc(e) ==
    IF e = None \/ CheckVersionLabel(e) # None \/ MainLoopCatches(e)
    THEN "after_check"
    ELSE "main_except"

\* lines 108-116 and 124-127: the end of check_version seen from main_loop;
\* the locals of the call are gone once it has returned
CheckEnd ==
    /\ pc = "c_except"
    /\ log' = IF exc = None THEN log
              ELSE IF CheckVersionLabel(exc) # None
                   THEN Logged("ERROR", CheckVersionLabel(exc), exc)
                   ELSE IF MainLoopCatches(exc)
                        THEN Logged("ERROR", "unhandled", exc)
                        ELSE log
    /\ pc' = AfterCheckPc(exc)
    /\ mainExc' = IF pc' = "main_except" THEN exc ELSE mainExc
    /\ conn' = None
    /\ stmt' = None
    /\ queried' = FALSE
    /\ row' = NoRow
    /\ closeErr' = FALSE
    /\ failedAt' = None
    /\ UNCHANGED <<env, cfg, diag, exitCode, loopVars, stopVars, openConns,
                   exc>>

\* -------------------------------------------------------------- main_loop
\* line 134
step == TicksPerUnit

Max(a, b) == IF a >= b THEN a ELSE b
Min(a, b) == IF a <= b THEN a ELSE b

\* lines 119-121
MainLoopStart ==
    /\ pc = "main"
    /\ log' = Logged("INFO", "started", <<>>)
    /\ pc' = "loop_top"
    /\ UNCHANGED <<procVars, loopVars, stopVars, checkVars>>

\* mutants: `while True`, and a loop that never runs
LoopContinues_Always(stop) == TRUE
LoopContinues_Never(stop) == FALSE

\* line 122: the `while` test
LoopContinues(stop) == ~stop

\* lines 122-125: the test, `start = time.time()`, and entry into check_version
LoopTop ==
    /\ pc = "loop_top"
    /\ IF LoopContinues(stop_requested)
       THEN /\ pc' = "c_connect"
            /\ sinceStart' = 0
            /\ elapsed' = -1
            /\ to_sleep' = 0
            /\ slept' = 0
            /\ log' = <<>>
            /\ exc' = None
       ELSE /\ pc' = "stopping"
            /\ UNCHANGED <<sinceStart, elapsed, to_sleep, slept, log, exc>>
    /\ UNCHANGED <<procVars, stopVars, sleepLeft, conn, openConns, stmt,
                   queried, row, closeErr, failedAt>>

\* mutant: no lower bound
RemainingSleep_Signed(interval, el) == interval - el

\* mutant: the duration of the check is not subtracted
RemainingSleep_NoElapsed(interval, el) == Max(0, interval)

\* line 130
RemainingSleep(interval, el) == Max(0, interval - el)

\* lines 129-132
AfterCheck ==
    /\ pc = "after_check"
    /\ elapsed' = sinceStart
    /\ to_sleep' = RemainingSleep(cfg.interval * TicksPerUnit, elapsed')
    /\ pc' = IF to_sleep' > 0 THEN "sleep_test" ELSE "loop_top"
    /\ UNCHANGED <<procVars, log, stopVars, checkVars, sinceStart,
                   sleepLeft, slept>>

\* mutant: the inner `while` does not test the flag
SleepContinues_IgnoreStop(ts, stop) == ts > 0

\* line 135: the inner `while` test
SleepContinues(ts, stop) == ts > 0 /\ ~stop

\* mutant: one long sleep
SleepDuration_Whole(ts) == ts

\* line 136: the argument of time.sleep
SleepDuration(ts) == Min(step, ts)

\* lines 135-136: the test and the call of time.sleep
SleepTest ==
    /\ pc = "sleep_test"
    /\ IF SleepContinues(to_sleep, stop_requested)
       THEN /\ pc' = "sleeping"
            /\ sleepLeft' = SleepDuration(to_sleep)
            /\ slept' = slept + SleepDuration(to_sleep)
       ELSE /\ pc' = "loop_top"
            /\ UNCHANGED <<sleepLeft, slept>>
    /\ UNCHANGED <<procVars, log, stopVars, checkVars, sinceStart,
                   elapsed, to_sleep>>

\* lines 136-137: time.sleep returns, `to_sleep -= step`
SleepReturn ==
    /\ pc = "sleeping"
    /\ sleepLeft = 0
    /\ to_sleep' = to_sleep - step
    /\ pc' = "sleep_test"
    /\ UNCHANGED <<procVars, log, stopVars, checkVars, sinceStart,
                   elapsed, sleepLeft, slept>>

\* line 138
LogStopped ==
    /\ pc = "stopping"
    /\ log' = Logged("INFO", "stopped", <<>>)
    /\ pc' = "returned"
    /\ UNCHANGED <<procVars, loopVars, stopVars, checkVars>>

\* ------------------------------------------------------------ __main__
\* mutant: sys.exit(1) in both except clauses
MainExitCode_InterruptFatal(e) == IF e = None THEN ExitOk ELSE ExitFatal

\* lines 141-148: the exit code for main_loop's outcome, e the exception that
\* left it (None when it returned); an exception no clause catches ends the
\* process with a traceback
MainExitCode(e) ==
    IF e = None THEN ExitOk
    ELSE IF IsInstance(e, "KeyboardInterrupt") THEN ExitOk
    ELSE ExitFatal

MainRecord(e) ==
    IF IsInstance(e, "KeyboardInterrupt") THEN Rec("INFO", "interrupted", <<>>)
    ELSE Rec("ERROR", "fatal", e)

MainBlock ==
    /\ pc \in {"returned", "main_except"}
    /\ LET e == mainExc IN
        /\ exitCode' = MainExitCode(e)
        /\ log' = IF e = None \/ ~(IsInstance(e, "KeyboardInterrupt")
                                   \/ IsInstance(e, "Exception"))
                  THEN log
                  ELSE Append(log, MainRecord(e))
    /\ pc' = "exit"
    /\ UNCHANGED <<env, cfg, diag, mainExc, loopVars, stopVars, checkVars>>

\* ----------------------------------------------------------------- faults
\* Exceptions the code has handlers for but its own calls do not raise:
\* the logging call of a check_version handler raising (caught at line 126),
\* and an exception raised in main_loop outside its try (caught at 144-148).
HandlerFault ==
    /\ pc = "c_except"
    /\ exc # None
    /\ exc' = "Exception"
    /\ failedAt' = None
    /\ log' = IF MainLoopCatches(exc') THEN Logged("ERROR", "unhandled", exc')
              ELSE log
    /\ pc' = IF MainLoopCatches(exc') THEN "after_check" ELSE "main_except"
    /\ mainExc' = IF MainLoopCatches(exc') THEN mainExc ELSE exc'
    /\ conn' = None
    /\ stmt' = None
    /\ queried' = FALSE
    /\ row' = NoRow
    /\ closeErr' = FALSE
    /\ UNCHANGED <<env, cfg, diag, exitCode, loopVars, stopVars, openConns>>

SleepFault ==
    /\ pc = "sleeping"
    /\ \E e \in {"Exception"} \cup BaseOnly : mainExc' = e
    /\ pc' = "main_except"
    /\ UNCHANGED <<env, cfg, diag, exitCode, log, loopVars, stopVars,
                   checkVars>>

\* ------------------------------------------------------------ observations
CheckMsgs ==
    {"empty", "success", "atypical", "connfail", "dberror", "unexpected",
     "unhandled"}
IsCheckLine(r) == r.msg \in CheckMsgs
IsStopLine(r) == r.msg = "stopped"
\* the records check_version (or main_loop on its behalf) logged in this iteration
CheckLines == SelectSeq(log, IsCheckLine)
\* the number of 'pinger stopped.' lines logged
StopLines == Len(SelectSeq(log, IsStopLine))
\* positions of main_loop
LoopPcs == {"loop_top", "stopping"} \cup CheckPcs \cup SleepPcs
\* positions at which the connection made by this check is open
ConnPcs ==
    {"c_cursor1", "c_set", "c_commit", "c_rollback", "c_cursor2", "c_execute",
     "c_fetch", "c_log", "c_close"}
Interval == cfg.interval * TicksPerUnit
Abs(x) == IF x >= 0 THEN x ELSE 0 - x

\* ----------------------------------------------------------------- claims
\* DB_USER or DB_PASS is missing or empty
C1_NoCredentials ==
    \/ ~env.DB_USER.set \/ env.DB_USER.val = <<>>
    \/ ~env.DB_PASS.set \/ env.DB_PASS.val = <<>>

\* the integer options are unset or decimal literals (among the values of
\* PortValues, IntervalValues and TimeoutValues)
C1_IntegersParse ==
    /\ ~env.DB_PORT.set
    /\ env.PING_INTERVAL_SECONDS # EnvStr(<<"x">>)
    /\ ~env.CONNECT_TIMEOUT_SECONDS.set

\* C1 as stated: with DB_USER or DB_PASS missing or empty, whatever the other
\* options are, the process exits with code 2 and no iteration runs.
C1_Original ==
    C1_NoCredentials =>
        /\ pc \in {"start", "exit"}
        /\ pc = "exit" => exitCode = ExitNoCredentials

\* C1 amended: with DB_USER or DB_PASS missing or empty, no loop iteration, no
\* check and no connection attempt ever runs; the process exits with code 2
\* and the diagnostic when the integer options parse, and with code 1 (the
\* ValueError of int()) when one of them does not.
C1_MissingCredentials ==
    C1_NoCredentials =>
        /\ pc \in {"start", "exit"}
        /\ sinceStart = -1 /\ openConns = 0 /\ log = <<>>
        /\ pc = "exit" =>
            /\ C1_IntegersParse => exitCode = ExitNoCredentials /\ diag
            /\ ~C1_IntegersParse => exitCode = ExitFatal /\ ~diag

C1_Witness ==
    /\ pc = "exit"
    /\ ~env.DB_PASS.set /\ env.DB_USER.set /\ env.DB_USER.val # <<>>
    /\ exitCode = ExitNoCredentials

\* C2: when the stop flag is first set in the sleep phase, the loop is out of
\* the sleep phase at most one sleep increment later, whatever remains of
\* to_sleep, and no further check is started.
C2_StopDuringSleep ==
    stopAt = "sleep" =>
        /\ sinceStop <= step
        /\ pc \notin CheckPcs
        /\ pc = "sleeping" => sinceStop + sleepLeft <= step

C2_Witness ==
    /\ stopAt = "sleep"
    /\ pc = "exit"
    /\ sinceStop = step
    /\ to_sleep > 0

\* C3: once a signal has set the flag while main_loop runs, the loop
\* eventually logs the stop line once, main_loop returns and the process exits
\* with code 0.
C3_ShutdownLiveness ==
    (stop_requested /\ pc \in LoopPcs)
        ~> (pc = "exit" /\ exitCode = ExitOk /\ StopLines = 1)

C3_Witness ==
    /\ pc = "exit"
    /\ exitCode = ExitOk
    /\ stopAt = "check"
    /\ StopLines = 1

\* where the program is after a check that raised
C4_FailedCheckState ==
    (exc # None /\ pc \notin CheckPcs) =>
        /\ pc \in SleepPcs \cup {"loop_top", "stopping", "returned", "exit"}
        /\ mainExc = None
        /\ exitCode \in {Running, ExitOk}
        /\ exitCode = ExitOk => stop_requested

\* C4: a check that failed never ends the process: main_loop goes on to the
\* sleep phase, the process exits only once the stop flag is set, and unless
\* the flag is set the next check is started.
C4_FailedCheckContinues ==
    /\ []C4_FailedCheckState
    /\ (pc = "c_except" /\ exc # None)
           ~> (pc = "after_check" /\ exc # None /\ exitCode = Running)
    /\ (pc = "after_check" /\ exc # None)
           ~> (pc = "c_connect" \/ stop_requested)

C4_Witness ==
    /\ pc = "sleeping"
    /\ exc = "OperationalError"
    /\ ~stop_requested
    /\ exitCode = Running

\* the step that starts a check after a previous one
C5_StartsNextCheck == pc = "loop_top" /\ pc' = "c_connect" /\ sinceStart >= 0

\* C5: when a check took less than the interval and the flag is not set, the
\* next check starts within one sleep increment of the interval after the
\* start of the previous one.
C5_IntervalBetweenChecks ==
    [][(C5_StartsNextCheck /\ elapsed < Interval)
           => Abs(sinceStart - Interval) <= step]_vars

C5_Witness ==
    /\ pc = "loop_top"
    /\ ~stop_requested
    /\ elapsed > 0
    /\ elapsed < Interval
    /\ Interval > step
    /\ sinceStart = Interval

\* the outcome line the claim names for a fetched row
C6_ExpectedLine(vals) ==
    IF vals = <<>> THEN [level |-> "WARNING", msg |-> "empty", arg |-> <<>>]
    ELSE IF Len(vals[1]) >= 10 /\ SubSeq(vals[1], 1, 10) = ExpectedPrefix
         THEN [level |-> "INFO", msg |-> "success", arg |-> vals[1]]
         ELSE [level |-> "INFO", msg |-> "atypical", arg |-> vals[1]]

\* C6: a check whose connection and query succeeded logs exactly one outcome
\* line: INFO success for a string with the prefix, INFO atypical for a string
\* without it, WARNING for no row; never two of them and never an ERROR.
C6_OneOutcomeLine ==
    /\ (pc \in {"c_close", "c_except"} /\ row.fetched) =>
        /\ exc = None
        /\ CheckLines = <<C6_ExpectedLine(row.vals)>>
    /\ (pc \in SleepPcs \cup {"loop_top", "stopping"} /\ sinceStart >= 0
            /\ exc = None) =>
        /\ Len(CheckLines) = 1
        /\ CheckLines[1].msg \in {"empty", "success", "atypical"}
        /\ CheckLines[1].level = IF CheckLines[1].msg = "empty"
                                 THEN "WARNING" ELSE "INFO"

C6_Witness ==
    /\ pc = "c_except"
    /\ row.fetched
    /\ row.vals = <<<<>>>>
    /\ CheckLines = <<[level |-> "INFO", msg |-> "atypical", arg |-> <<>>]>>

\* C7: at most one connection is open, only while a check is between its
\* connect and its close, and none is open once the check has left the scope,
\* on any exit path.
C7_ConnectionScoped ==
    /\ openConns \in {0, 1}
    /\ openConns = 1 => pc \in ConnPcs /\ conn # None
    /\ (pc \in ConnPcs /\ conn # None) => openConns = 1
    /\ pc \in ConnPcs \ {"c_close"} => conn # None

C7_Witness ==
    /\ pc = "c_except"
    /\ exc # None
    /\ conn # None
    /\ closeErr
    /\ openConns = 0

\* the way the run ended
EndedAtStartup == sinceStart = -1 /\ log = <<>>
EndedByReturn == mainExc = None /\ StopLines = 1

\* C8 as stated: exit code 0 on a clean shutdown, 1 when an exception or
\* KeyboardInterrupt left main_loop, 2 when the credential test failed.
C8_Original ==
    pc = "exit" =>
        /\ EndedByReturn => exitCode = ExitOk
        /\ mainExc # None => exitCode = ExitFatal
        /\ diag => exitCode = ExitNoCredentials

\* C8 amended: exit code 0 on a clean shutdown and on the KeyboardInterrupt
\* path, 1 when another exception left main_loop (or int() failed at startup),
\* 2 when the credential test failed.
C8_ExitCodes ==
    pc = "exit" =>
        /\ EndedByReturn => exitCode = ExitOk /\ stop_requested
        /\ mainExc = "KeyboardInterrupt" => exitCode = ExitOk
        /\ mainExc \notin {None, "KeyboardInterrupt"} => exitCode = ExitFatal
        /\ diag => exitCode = ExitNoCredentials
        /\ (EndedAtStartup /\ ~diag) => exitCode = ExitFatal
        /\ EndedAtStartup \/ EndedByReturn \/ mainExc # None

C8_Witness ==
    /\ pc = "exit"
    /\ mainExc = "KeyboardInterrupt"
    /\ exitCode = ExitOk
    /\ ~stop_requested

\* the session after a rejected SET statement_timeout
C9_State ==
    /\ pc = "c_rollback" => exc = None /\ openConns = 1 /\ conn # None
    /\ stmt = "discarded" =>
        /\ conn # None
        /\ pc \in {"c_cursor2", "c_execute", "c_fetch", "c_log"} =>
            exc = None /\ openConns = 1
        /\ (pc = "c_except" /\ row.fetched /\ row.vals = <<PgVersion>>) =>
            /\ queried
            /\ exc = None
            /\ CheckLines =
                 <<[level |-> "INFO", msg |-> "success", arg |-> PgVersion]>>

\* the steps that reject, roll back and return
C9_Step ==
    /\ (pc \in {"c_set", "c_commit"} /\ pc' \notin {"c_set", "c_commit", "c_cursor2"})
           => pc' = "c_rollback"
    /\ (pc = "c_rollback" /\ pc' = "c_cursor2") => stmt' = "discarded"
    /\ (pc = "c_except" /\ pc' # "c_except" /\ stmt = "discarded" /\ row.fetched)
           => pc' = "after_check" /\ log' = log

\* C9: a rejected SET statement_timeout (or commit) is rolled back without
\* raising, the connection stays open and is handed to the check, and a check
\* that then fetches a string with the prefix logs it as the one success line
\* and returns without an ERROR line.
C9_TimeoutRejected == []C9_State /\ [][C9_Step]_vars

C9_Witness ==
    /\ pc = "c_except"
    /\ stmt = "discarded"
    /\ row.vals = <<PgVersion>>
    /\ exc = None
    /\ Len(CheckLines) = 1

\* C10: the stop line is logged at most once, only with the stop flag set, and
\* main_loop has returned by then: no check or sleep follows it.
C10_StopLine ==
    /\ StopLines <= 1
    /\ StopLines = 1 => stop_requested /\ pc \in {"returned", "exit"}
    /\ pc \in {"stopping", "returned"} => stop_requested
    /\ pc = "returned" => StopLines = 1

C10_Witness ==
    /\ pc = "exit"
    /\ StopLines = 1
    /\ stopAt = "sleep"
    /\ sinceStop > 0

\* the message and argument of each element of a sequence of records or lines
Bodies(s) == [i \in 1..Len(s) |-> [msg |-> s[i].msg, arg |-> s[i].arg]]
IsFailureLevel(r) == r.level \in {"WARNING", "ERROR"}
IsFailureBody(b) == b.msg \in {"empty", "connfail", "dberror", "unexpected",
                               "unhandled", "fatal"}
\* what each sink has written for the records of this iteration
StdoutLines == Sink("stdout", cfg, log)
StderrLines == Sink("stderr", cfg, log)
FileLines == Sink("file", cfg, log)

\* C11: the standard-error sink holds exactly the WARNING and ERROR records,
\* in order (so every one of them and no INFO record); the standard-output
\* sink holds every record of severity INFO and above; the file sink, when a
\* log file is configured, holds every WARNING and ERROR record.
C11_Routing ==
    /\ \A i \in 1..Len(log) : IsFailureLevel(log[i]) <=> IsFailureBody(log[i])
    /\ Bodies(StderrLines) = Bodies(SelectSeq(log, IsFailureLevel))
    /\ Bodies(StdoutLines) = Bodies(log)
    /\ cfg.log_file =>
        SelectSeq(Bodies(FileLines), IsFailureBody)
            = Bodies(SelectSeq(log, IsFailureLevel))

C11_Witness ==
    /\ cfg.log_file
    /\ \E i \in 1..Len(log) : log[i].level = "INFO"
    /\ \E i \in 1..Len(log) : log[i].level = "ERROR"
    /\ Len(StderrLines) = 1
    /\ Len(StdoutLines) = Len(log)

\* the ERROR lines of this iteration
IsErrorLine(r) == r.level = "ERROR"
ErrorLines == SelectSeq(log, IsErrorLine)

\* no exception of a check has reached main_loop's handler or left main_loop
C12_State ==
    /\ \A i \in 1..Len(log) : log[i].msg # "unhandled"
    /\ mainExc = None
    /\ pc # "main_except"
\* the step that ends a check
C12_Step ==
    (pc = "c_except" /\ pc' # "c_except") =>
        /\ pc' = "after_check"
        /\ exc # None =>
            /\ Len(log') = Len(log) + 1
            /\ log'[Len(log')].msg \in {"connfail", "dberror", "unexpected"}
        /\ exc = None => log' = log

\* C12: whichever step of a check fails (connect, SET, commit, rollback, a
\* cursor, the query, the fetch, close), check_version returns to main_loop:
\* the 'Unhandled error in check_version' line is never logged, no exception
\* leaves main_loop, and the step that ends a failed check goes on to the
\* line after the try statement with the line of one of check_version's own
\* handlers.
C12_NeverRaises == []C12_State /\ [][C12_Step]_vars

C12_Witness ==
    /\ pc = "after_check"
    /\ exc = "Exception"
    /\ Len(ErrorLines) = 1
    /\ ErrorLines[1].msg = "unexpected"

\* the label the claim gives a failure of the call at position `at`
C13_StepLabel(at) ==
    IF at = "c_connect" THEN "connfail"
    ELSE IF at = "c_execute" THEN "dberror"
    ELSE "unexpected"

\* C13 as stated: the step that ends a failed check appends exactly one ERROR
\* line and returns (no second attempt); a failure of the connect call gets
\* the connection-failure label, a failure of the execute call of the
\* diagnostic query on the established connection the query-failure label,
\* and a failure of any other call the generic label.
C13_Original ==
    [][(pc = "c_except" /\ exc # None /\ pc' # "c_except") =>
           /\ pc' = "after_check"
           /\ Len(log') = Len(log) + 1
           /\ log'[Len(log')].level = "ERROR"
           /\ SubSeq(log', 1, Len(log)) = log
           /\ log'[Len(log')].msg = C13_StepLabel(failedAt)]_vars

\* the line check_version logs for an exception of class e
C14_LineOf(e) ==
    CASE e = "OperationalError" -> Rec("ERROR", "connfail", e)
      [] e = "DatabaseError" -> Rec("ERROR", "dberror", e)
      [] e = "Exception" -> Rec("ERROR", "unexpected", e)

\* a check whose body succeeded and whose close failed
C14_State ==
    (pc = "c_except" /\ closeErr /\ exc = None) =>
        /\ row.fetched
        /\ Len(CheckLines) = 1
        /\ ErrorLines = <<>>

\* the close that fails, and the end of a check whose close failed
C14_Step ==
    /\ (pc = "c_close" /\ closeErr') =>
        /\ pc' = "c_except"
        /\ exc' = exc
        /\ failedAt' = failedAt
        /\ log' = log
    /\ (pc = "c_except" /\ closeErr /\ pc' # "c_except") =>
        /\ pc' = "after_check"
        /\ exc' = exc
        /\ log' = IF exc = None THEN log ELSE Append(log, C14_LineOf(exc))

\* C14: a failure of conn.close() does not leave connect_with_timeout and
\* logs nothing; the exception of the body, if any, is still the one that
\* propagates and the one ERROR line of the check is the line of that
\* exception; a check whose body succeeded keeps its one outcome line, gets no
\* ERROR line and returns normally.
C14_CloseSwallowed == []C14_State /\ [][C14_Step]_vars

C14_Witness ==
    /\ pc = "c_except"
    /\ closeErr
    /\ exc = "DatabaseError"
    /\ failedAt = "c_execute"
    /\ log = <<>>

\* C15: a step that delivers SIGINT or SIGTERM leaves the stop flag true,
\* appends exactly one INFO line naming the signal, whether the flag was set
\* before or not, and changes neither the position of the thread, nor the
\* locals of the loop and of the sleep in progress, nor the connection of the
\* check in progress, nor the configuration; no exception is raised.
C15_SignalFrame ==
    [][nsig' # nsig =>
           /\ nsig' = nsig + 1
           /\ stop_requested'
           /\ \E signum \in {SIGINT, SIGTERM} :
               log' = Append(log, [level |-> "INFO", msg |-> "signal",
                                   arg |-> signum])
           /\ UNCHANGED <<pc, sinceStart, elapsed, to_sleep, sleepLeft>>
           /\ UNCHANGED <<conn, openConns, stmt, queried, row, closeErr, exc,
                          failedAt>>
           /\ UNCHANGED <<env, cfg, diag, mainExc, exitCode>>]_vars

C15_Witness ==
    /\ nsig = 2
    /\ pc = "c_execute"
    /\ openConns = 1
    /\ stop_requested
    /\ log = <<[level |-> "INFO", msg |-> "signal", arg |-> SIGTERM],
               [level |-> "INFO", msg |-> "signal", arg |-> SIGINT]>>

\* no signal has been handled: the flag has its value of line 49
C16_State == nsig = 0 => ~stop_requested

\* a step that changes the flag is a run of the handler, and none resets it
C16_Step ==
    /\ stop_requested' # stop_requested =>
        /\ nsig' = nsig + 1
        /\ pc' = pc
    /\ stop_requested => stop_requested'

\* C16: the stop flag is false from startup until a signal is handled, only a
\* step of the signal handler changes it, and once true it stays true through
\* every step of main_loop, check_version and connect_with_timeout.
C16_StopFlag == []C16_State /\ [][C16_Step]_vars

C16_Witness ==
    /\ stop_requested
    /\ nsig = 2
    /\ stopAt = "check"
    /\ pc = "after_check"
    /\ exc # None

\* where the loop can be, given the phase in which the flag was first set
C17_State ==
    /\ stop_requested <=> stopAt # None
    /\ stopAt \in {"top", "outside"} => pc \notin CheckPcs \cup SleepPcs
    /\ stopAt = "check" => pc # "sleeping"
    /\ stopAt = "sleep" => pc \notin CheckPcs

\* with the flag set no check and no sleep call is started
C17_Step ==
    stop_requested =>
        /\ ~(pc = "loop_top" /\ pc' \in CheckPcs)
        /\ ~(pc # "sleeping" /\ pc' = "sleeping")
        /\ pc = "loop_top" /\ pc' # pc => pc' = "stopping"

\* C17: wherever the signal arrives, the loop ends after the iteration in
\* progress: with the flag set no check is started (only a check already
\* entered runs to its end) and no sleep call is started (only the call in
\* progress runs to its end); a flag set during a check means that no sleep
\* call at all is made after that check, and a flag set at the loop-top test
\* or before the loop means that no check and no sleep follows.
C17_EndsAfterIteration == []C17_State /\ [][C17_Step]_vars

C17_Witness ==
    /\ stopAt = "check"
    /\ pc = "stopping"
    /\ elapsed >= 0
    /\ to_sleep > step
    /\ nsig = 1

\* max(0, interval - elapsed) of the iteration, in ticks
C18_Remaining == IF Interval - elapsed > 0 THEN Interval - elapsed ELSE 0

\* the sleep phase of an iteration during which no signal has arrived
C18_State ==
    (~stop_requested /\ elapsed >= 0) =>
        /\ pc = "sleep_test" =>
            slept + (IF to_sleep > 0 THEN to_sleep ELSE 0) = C18_Remaining
        /\ pc = "sleeping" => sleepLeft <= step /\ slept <= C18_Remaining
        /\ pc = "loop_top" =>
            /\ slept = C18_Remaining
            /\ sinceStart = elapsed + slept
        /\ elapsed >= Interval =>
            /\ pc \notin {"sleep_test", "sleeping"}
            /\ slept = 0

\* the steps of lines 129-136 in such an iteration
C18_Step ==
    ~stop_requested' =>
        /\ (pc = "after_check" /\ pc' # pc) =>
            /\ to_sleep' = C18_Remaining'
            /\ to_sleep' >= 0
            /\ elapsed' >= Interval => pc' = "loop_top" /\ sinceStart' = elapsed'
        /\ (pc # "sleeping" /\ pc' = "sleeping") =>
            /\ sleepLeft' > 0
            /\ sleepLeft' <= step
            /\ slept' = slept + sleepLeft'
        /\ (pc = "loop_top" /\ pc' # pc /\ sinceStart >= 0) => pc' = "c_connect"

\* C18: in an iteration not interrupted by a signal the remaining sleep
\* computed after the check is max(0, interval - elapsed), never negative;
\* every time.sleep call is for at most one increment; the arguments of the
\* calls add up to exactly the remaining sleep; and when the check took the
\* whole interval or more, no sleep call is made and the next check is
\* started with no time in between.
C18_SleepArithmetic == []C18_State /\ [][C18_Step]_vars

C18_Witness ==
    /\ pc = "loop_top"
    /\ ~stop_requested
    /\ elapsed > 0
    /\ slept = Interval - elapsed
    /\ slept > step
    /\ slept % step # 0

\* the lines of a sink carry the severities of the records it emitted
C19_LabelsOf(h) ==
    LET lines == Sink(h, cfg, log)
        IsEmitted(r) == Emits(h, cfg, r)
        emitted == SelectSeq(log, IsEmitted)
    IN /\ Len(lines) = Len(emitted)
       /\ \A i \in 1..Len(lines) : lines[i].label = emitted[i].level

\* C19 as stated: on every sink that emits a record (standard output,
\* standard error, file) the severity label of the formatted line is the
\* severity of the record.
C19_Original == \A h \in Handlers : C19_LabelsOf(h)

\* ---------------------------------------------------------- specifications
Step ==
    \/ Startup
    \/ MainLoopStart
    \/ LoopTop
    \/ Connect
    \/ TimeoutCursor
    \/ SetTimeout
    \/ Commit
    \/ Rollback
    \/ QueryCursor
    \/ Execute
    \/ Fetch
    \/ LogOutcome
    \/ Close
    \/ CheckEnd
    \/ AfterCheck
    \/ SleepTest
    \/ SleepReturn
    \/ LogStopped
    \/ MainBlock
    \/ Tick

Next ==
    \/ Step
    \/ \E signum \in {SIGINT, SIGTERM} : Signal(signum)

Spec == Init /\ [][Next]_vars

\* the thread of control keeps running and time keeps passing
FairSpec == Spec /\ WF_vars(Step)

FaultNext ==
    \/ Next
    \/ HandlerFault
    \/ SleepFault

FaultSpec == Init /\ [][FaultNext]_vars
====
